---- MODULE Spec2Model ----
(***************************************************************************)
(* A model of package grab (src/grab.go, lines 1-324): a Body turns a      *)
(* range-addressable HTTP resource into one logical byte stream with Read, *)
(* Seek, Close and VerifyCopiedData, reopening the connection at the       *)
(* current position when the underlying body fails.                        *)
(*                                                                         *)
(* The stream is used by one caller at a time, so the model is a           *)
(* sequential program: pc is the position of the running call, and the     *)
(* only nondeterminism is the caller's choice of operation and what the    *)
(* server and the connection do (Server, TeeOutcomes).                     *)
(***************************************************************************)
EXTENDS Integers, Sequences, FiniteSets, TLC

VARIABLES
    b,        \* the Body struct (grab.go:123-140) plus req.Header["Range"]
    pc,       \* "start" | "idle" | "retry" | "tee" | "panic" | "failed"
    fr,       \* locals of the running call (Read, read, nextReader, retry)
    ret,      \* what the last finished call returned to the caller
    reqs,     \* c.Do calls made by the running (or last) call
    out,      \* bytes Read has returned since OpenWith or the last Seek that moved
    fresh,    \* no Seek has moved the position of the stream
    faults,   \* faults the environment has injected so far: [req, read]
    content   \* the resource on the server

vars == <<b, pc, fr, ret, reqs, out, fresh, faults, content>>

----------------------------------------------------------------------------
(* Bounds of the model *)

MaxLen == 2      \* longest resource
MaxBuf == 2      \* longest buffer passed to Read
MaxN == 2        \* largest attempt budget passed to OpenWith
MaxFaults == 2   \* faults the environment injects in one behaviour
MaxPast == 2     \* how far past tPos a Seek may go
MaxEnds == 3     \* requests of one Read up to which a body may end early
HashMod == 4     \* number of distinct digest values

(* Program constants *)

DefaultAttempts == 5   \* grab.go:34
ETagLen == 32          \* grab.go:63
DigestSize == 16       \* md5.Size, the hash made at grab.go:104

SeekStart == 0
SeekCurrent == 1
SeekEnd == 2

NoRange == -1          \* req carries no Range header

----------------------------------------------------------------------------
(* Errors.  Every error value is a record, nil included. *)

Err(k) == [kind |-> k, cause |-> "none"]
Nil == Err("nil")
EOF == Err("EOF")
EINVAL == Err("EINVAL")

\* errors.Wrapf(err, "request failed after %d attempts", n); Wrapf(nil) is nil
Wrapf(e) == IF e = Nil THEN Nil ELSE [kind |-> "request failed", cause |-> e.kind]

----------------------------------------------------------------------------
(* The digest accumulator: md5.New, Write, Reset, Sum, and "%x". *)

HashInit == 0

HashByte(h, x) == (h * 3 + x + 1) % HashMod

RECURSIVE HashWrite(_, _)
HashWrite(h, data) ==
    IF data = <<>> THEN h ELSE HashWrite(HashByte(h, Head(data)), Tail(data))

\* b.Sum(): DigestSize bytes
Sum(h) == [i \in 1..DigestSize |-> IF i = DigestSize THEN h ELSE 0]

HexDigits == <<"0", "1", "2", "3", "4", "5", "6", "7",
               "8", "9", "a", "b", "c", "d", "e", "f">>

\* fmt.Sprintf("%x", bytes): two lowercase hex digits per byte
Hex(bytes) ==
    [i \in 1..(2 * Len(bytes)) |->
        LET x == bytes[(i + 1) \div 2]
        IN  IF i % 2 = 1 THEN HexDigits[(x \div 16) + 1] ELSE HexDigits[(x % 16) + 1]]

\* tryParseETag: the header, or "" for none (a nil *string)
tryParseETag(header) ==
    IF header = <<>> THEN <<>>
    ELSE IF Len(header) # ETagLen THEN <<>>
    ELSE header

----------------------------------------------------------------------------
(* The server and the connection. *)

Resource(L) == [i \in 1..L |-> i - 1]

\* The Etag headers a server may send for a resource: none, the digest of the
\* content, or the digest of a multi-part upload ("<digest>-<parts>").
ETagHeaders(data) ==
    LET digest == Hex(Sum(HashWrite(HashInit, data)))
    IN  {<<>>, digest, digest \o <<"-", "2">>}

\* The raw result of c.Do(req) for a request whose Range header is rg:
\* what the server answers when it behaves as outcome o.
Server(o, rg, L) ==
    CASE o = "transport" ->
            [err |-> Err("transport"), StatusCode |-> 0, ContentLength |-> 0,
             contentRange |-> FALSE, pos |-> 0]
      [] o = "status" ->
            [err |-> Nil, StatusCode |-> 500, ContentLength |-> 0,
             contentRange |-> FALSE, pos |-> 0]
      [] o = "nolength" ->
            [err |-> Nil, StatusCode |-> 200, ContentLength |-> -1,
             contentRange |-> FALSE, pos |-> 0]
      [] o = "ignore" ->
            [err |-> Nil, StatusCode |-> 200, ContentLength |-> L,
             contentRange |-> FALSE, pos |-> 0]
      [] OTHER ->
            IF rg = NoRange
            THEN [err |-> Nil, StatusCode |-> 200, ContentLength |-> L,
                  contentRange |-> FALSE, pos |-> 0]
            ELSE IF rg < L
            THEN [err |-> Nil, StatusCode |-> 206, ContentLength |-> L - rg,
                  contentRange |-> TRUE, pos |-> rg]
            ELSE [err |-> Nil, StatusCode |-> 416, ContentLength |-> 0,
                  contentRange |-> FALSE, pos |-> 0]

ServerOutcomes == {"ok", "transport", "status", "nolength", "ignore"}

\* outcome "ok" is the range-honouring server of the tests; the rest are faults
IsReqFault(o) == o # "ok"

checkResponse(r) ==
    IF r.StatusCode >= 300 THEN Err("status")
    ELSE IF r.ContentLength = -1 THEN Err("no content-length")
    ELSE Nil

NoBody == [nil |-> TRUE, open |-> FALSE, pos |-> 0]
NewBody(p) == [nil |-> FALSE, open |-> TRUE, pos |-> p]
CloseBody(bd) == [bd EXCEPT !.open = FALSE]

\* What one Read of an open connection standing at resource offset bp can
\* return into a slice of length avail: <<k, err>>.
TeeOutcomes(bp, avail, L) ==
    LET rem == IF L > bp THEN L - bp ELSE 0
        most == IF avail < rem THEN avail ELSE rem
    IN  {<<k, e>> \in (0..most) \X {Nil, EOF, Err("read")} :
            e = Nil => (k >= 1 \/ avail = 0)}

\* a failed read, or a connection that ends before the resource does
IsReadFault(bp, k, e, L) == e = Err("read") \/ (e = EOF /\ bp + k < L)

----------------------------------------------------------------------------
(* The state as one record, so that the code's functions are operators     *)
(* from a state (and an outcome of the environment) to the next state.     *)

State == [b |-> b, pc |-> pc, fr |-> fr, ret |-> ret, reqs |-> reqs,
          out |-> out, fresh |-> fresh, faults |-> faults]

Apply(s) ==
    /\ b' = s.b
    /\ pc' = s.pc
    /\ fr' = s.fr
    /\ ret' = s.ret
    /\ reqs' = s.reqs
    /\ out' = s.out
    /\ fresh' = s.fresh
    /\ faults' = s.faults
    /\ UNCHANGED content

ZeroBody == [ETag |-> <<>>, n |-> 0, body |-> NoBody, md5 |-> HashInit,
             cPos |-> 0, tPos |-> 0, closed |-> FALSE, seeked |-> FALSE,
             err |-> Nil, range |-> NoRange]

Frame0 == [plen |-> 0, nw |-> 0, rn |-> 0, ri |-> 0, ai |-> 0,
           lastErr |-> Nil, ctx |-> "none", buf |-> <<>>, at |-> 0,
           leaked |-> FALSE]

\* ret.n is the count Read returned or the position Seek returned; ret.at is
\* cPos when the call began; ret.plen is len(p); ret.leaked is whether the
\* call dropped a body that was still open
Ret0 == [op |-> "none", n |-> 0, err |-> Nil, at |-> 0, plen |-> 0,
         leaked |-> FALSE]

Init ==
    /\ b = ZeroBody
    /\ pc = "start"
    /\ fr = Frame0
    /\ ret = Ret0
    /\ reqs = 0
    /\ out = <<>>
    /\ fresh = TRUE
    /\ faults = [req |-> 0, read |-> 0]
    /\ content \in {Resource(L) : L \in 0..MaxLen}

----------------------------------------------------------------------------
(* Body.Read and what it calls (grab.go:185-285). *)

\* b.body.Close()
CloseActive(s) ==
    [s EXCEPT !.b.body = IF s.b.body.nil THEN NoBody ELSE CloseBody(s.b.body)]

\* b.body = bd: the stream lets go of the body it held, closed or not
Replace(s, bd) ==
    [s EXCEPT !.b.body = bd,
              !.fr.leaked = s.fr.leaked \/ s.b.body.open]

\* b.body = nil
Drop(s) == Replace(s, NoBody)

\* a slip: a Read that fails reports no bytes
ReadReturnZeroOnError(s, nw, e) ==
    [s EXCEPT !.pc = "idle",
              !.ret = [op |-> "Read", n |-> IF e \in {Nil, EOF} THEN nw ELSE 0,
                       err |-> e, at |-> s.fr.at,
                       plen |-> s.fr.plen, leaked |-> s.fr.leaked],
              !.out = s.out \o SubSeq(s.fr.buf, 1, nw),
              !.fr = Frame0]

\* Read hands (nw, e) back to the caller
ReadReturn(s, nw, e) ==
    [s EXCEPT !.pc = "idle",
              !.ret = [op |-> "Read", n |-> nw, err |-> e, at |-> s.fr.at,
                       plen |-> s.fr.plen, leaked |-> s.fr.leaked],
              !.out = s.out \o SubSeq(s.fr.buf, 1, nw),
              !.fr = Frame0]

\* a slip: the reopened request starts one byte after the current position
RangeForOffByOne(cPos) == cPos + 1

\* the Range that nextReader asks retry to set: none at position 0
RangeFor(cPos) == IF cPos > 0 THEN cPos ELSE NoRange

\* nextReader up to its call of retry, and retry up to its loop:
\* req.Header.Set("Range", ...) only when a range is given
NextReaderCall(s, ctx) ==
    LET rg == RangeFor(s.b.cPos)
    IN  [s EXCEPT !.pc = "retry",
                  !.b.range = IF rg # NoRange THEN rg ELSE s.b.range,
                  !.fr.ctx = ctx,
                  !.fr.ai = 0,
                  !.fr.lastErr = Nil]

\* the head of Read's loop, for nw < len(p), and the call of b.read
LoopHead(s) ==
    IF s.fr.nw < s.fr.plen
    THEN [s EXCEPT !.pc = "tee", !.fr.rn = 0, !.fr.ri = 0]
    ELSE ReadReturn(s, s.fr.nw, Nil)

\* a slip: every end of an underlying stream is taken for the end of the data
AtEndAlways(cPos, tPos) == TRUE

\* whether Read takes the underlying end of stream for the end of the data
AtEnd(cPos, tPos) == cPos = tPos

\* b.read has returned (rn, e) to Read's loop
ReadLoopBody(s, rn, e) ==
    LET s1 == [s EXCEPT !.fr.nw = s.fr.nw + rn]
    IN  IF e = EOF
        THEN LET s2 == Drop(s1)
             IN  IF AtEnd(s2.b.cPos, s2.b.tPos)
                 THEN ReadReturn(s2, s2.fr.nw, EOF)
                 ELSE NextReaderCall(s2, "eof")
        ELSE IF e # Nil
        THEN ReadReturn([s1 EXCEPT !.b.err = e], s1.fr.nw, e)
        ELSE LoopHead(s1)

\* whether nextReader accepts the response
HasContentRange(resp) == resp.contentRange

\* nextReader has returned e to the place that called it
NextReaderReturn(s, e) ==
    CASE s.fr.ctx = "lazy" ->
            IF e # Nil THEN ReadReturn(s, 0, e) ELSE LoopHead(s)
      [] s.fr.ctx = "eof" ->
            IF e # Nil THEN ReadReturn(s, s.fr.nw, e) ELSE LoopHead(s)
      [] OTHER ->
            \* b.read: return on an error, else the loop's i++
            IF e # Nil THEN ReadLoopBody(s, s.fr.rn, e)
            ELSE [s EXCEPT !.pc = "tee", !.fr.ri = s.fr.ri + 1]

\* the function lets go of a body that the stream never held
Discard(s, bd) == [s EXCEPT !.fr.leaked = s.fr.leaked \/ bd.open]

\* a slip: the refused response is left open
NextReaderLeavesOpen(s, resp, e) ==
    IF e # Nil THEN NextReaderReturn(s, e)
    ELSE IF ~HasContentRange(resp)
    THEN NextReaderReturn(Discard(s, NewBody(resp.pos)),
                          Err("missing Content-Range"))
    ELSE NextReaderReturn(Replace(s, NewBody(resp.pos)), Nil)

\* retry has returned (resp, e) to nextReader; a response without a
\* Content-Range is closed and refused
NextReader(s, resp, e) ==
    IF e # Nil THEN NextReaderReturn(s, e)
    ELSE IF ~HasContentRange(resp)
    THEN NextReaderReturn(Discard(s, CloseBody(NewBody(resp.pos))),
                          Err("missing Content-Range"))
    ELSE NextReaderReturn(Replace(s, NewBody(resp.pos)), Nil)

\* retry has returned (resp, e) to OpenWith; resp.Header.Get("Etag") is etag
OpenWithReturn(s, resp, e, etag) ==
    IF e # Nil THEN [s EXCEPT !.pc = "failed", !.fr = Frame0,
                              !.ret = [Ret0 EXCEPT !.op = "OpenWith", !.err = e]]
    ELSE IF resp = NoBody THEN [s EXCEPT !.pc = "panic", !.fr = Frame0]
    ELSE [s EXCEPT !.pc = "idle", !.fr = Frame0,
                   !.ret = [Ret0 EXCEPT !.op = "OpenWith"],
                   !.b.ETag = tryParseETag(etag),
                   !.b.md5 = HashInit,
                   !.b.body = NewBody(resp.pos),
                   !.b.tPos = resp.ContentLength]

RetryReturn(s, resp, e, etag) ==
    IF s.fr.ctx = "open" THEN OpenWithReturn(s, resp, e, etag)
    ELSE NextReader(s, resp, e)

\* one turn of retry's loop: c.Do answered as the server's outcome o, with
\* the Etag header etag
RetryAttempt(s, o, etag) ==
    LET resp == Server(o, s.b.range, Len(content))
        e == IF resp.err = Nil THEN checkResponse(resp) ELSE resp.err
        s1 == [s EXCEPT !.reqs = s.reqs + 1,
                        !.faults.req = s.faults.req + (IF IsReqFault(o) THEN 1 ELSE 0)]
    IN  IF e = Nil THEN RetryReturn(s1, resp, Nil, etag)
        ELSE [s1 EXCEPT !.fr.ai = s.fr.ai + 1, !.fr.lastErr = e]

\* a slip: retry returns the last error as it is
RetryExhaustedUnwrapped(s) == RetryReturn(s, NoBody, s.fr.lastErr, <<>>)

\* retry's loop is over: the wrapped last error
RetryExhausted(s) == RetryReturn(s, NoBody, Wrapf(s.fr.lastErr), <<>>)

\* whether b.read returns at once: "a non EOF error occurred but we have
\* enough data anyway", or no error, or the end of the stream
ReadDone(e, cPos, tPos) == (e # EOF /\ cPos = tPos) \/ e = Nil \/ e = EOF

\* a slip: bytes that arrive together with an error are not hashed
TeeReadHashesOnSuccess(s, k, e) ==
    LET bp == s.b.body.pos
        data == SubSeq(content, bp + 1, bp + k)
        s1 == [s EXCEPT !.fr.rn = s.fr.rn + k,
                        !.fr.buf = s.fr.buf \o data,
                        !.b.cPos = s.b.cPos + k,
                        !.b.md5 = IF e = Nil THEN HashWrite(s.b.md5, data)
                                  ELSE s.b.md5,
                        !.b.body.pos = bp + k,
                        !.faults.read = s.faults.read +
                            (IF IsReadFault(bp, k, e, Len(content)) THEN 1 ELSE 0)]
    IN  IF ReadDone(e, s1.b.cPos, s1.b.tPos)
        THEN ReadLoopBody(s1, s1.fr.rn, e)
        ELSE NextReaderCall(Drop(CloseActive(s1)), "read")

\* one turn of b.read's loop: tee.Read returned (k, e)
TeeRead(s, k, e) ==
    LET bp == s.b.body.pos
        data == SubSeq(content, bp + 1, bp + k)
        s1 == [s EXCEPT !.fr.rn = s.fr.rn + k,
                        !.fr.buf = s.fr.buf \o data,
                        !.b.cPos = s.b.cPos + k,
                        !.b.md5 = HashWrite(s.b.md5, data),
                        !.b.body.pos = bp + k,
                        !.faults.read = s.faults.read +
                            (IF IsReadFault(bp, k, e, Len(content)) THEN 1 ELSE 0)]
    IN  IF ReadDone(e, s1.b.cPos, s1.b.tPos)
        THEN ReadLoopBody(s1, s1.fr.rn, e)
        ELSE NextReaderCall(Drop(CloseActive(s1)), "read")

\* a slip: b.read starts its loop again instead of giving up
ReadNeverExhausted(s) == [s EXCEPT !.fr.ri = 0]

\* b.read's loop is over
ReadExhausted(s) == ReadLoopBody(s, s.fr.rn, Err("unable to read"))

\* the guards of Read that answer at once
PastEnd(cPos, tPos) == cPos = tPos + 1
PastBoundary(cPos, tPos) == cPos > tPos + 1

BodyRead(s, plen) ==
    LET s1 == [s EXCEPT !.reqs = 0, !.ret = Ret0,
                        !.fr = [Frame0 EXCEPT !.plen = plen, !.at = s.b.cPos]]
    IN  IF s.b.closed THEN ReadReturn(s1, 0, EINVAL)
        ELSE IF s.b.err # Nil THEN ReadReturn(s1, 0, s.b.err)
        ELSE IF PastEnd(s.b.cPos, s.b.tPos) THEN ReadReturn(s1, 0, EOF)
        ELSE IF PastBoundary(s.b.cPos, s.b.tPos)
        THEN ReadReturn(s1, 0, Err("past boundary"))
        ELSE IF s.b.body.nil THEN NextReaderCall(s1, "lazy")
        ELSE LoopHead(s1)

----------------------------------------------------------------------------
(* OpenWith, Seek, Close, VerifyCopiedData. *)

Attempts(n) == IF n = 0 THEN DefaultAttempts ELSE n

OpenWithCall(s, n) ==
    [s EXCEPT !.pc = "retry", !.b.n = Attempts(n), !.reqs = 0,
              !.fr = [Frame0 EXCEPT !.ctx = "open"]]

SeekPos(cPos, tPos, offset, whence) ==
    CASE whence = SeekCurrent -> cPos + offset
      [] whence = SeekStart -> 0 + offset
      [] whence = SeekEnd -> tPos + offset
      [] OTHER -> cPos

SeekReturn(s, pos, e) ==
    [s EXCEPT !.ret = [Ret0 EXCEPT !.op = "Seek", !.err = e, !.n = pos,
                                   !.at = s.fr.at, !.leaked = s.fr.leaked],
              !.fr = Frame0]

\* a variant: a Seek that moves the stream forgets the sticky error
SeekMoveClearsErr(s, pos) ==
    LET s1 == [s EXCEPT !.b.seeked = (pos # 0),
                        !.b.md5 = IF pos = 0 THEN HashInit ELSE s.b.md5,
                        !.b.cPos = pos,
                        !.b.err = Nil,
                        !.fresh = FALSE,
                        !.out = <<>>]
    IN  IF s1.b.body.nil THEN s1 ELSE Drop(CloseActive(s1))

\* a slip: a Seek to 0 keeps what the accumulator holds
SeekMoveKeepsDigest(s, pos) ==
    LET s1 == [s EXCEPT !.b.seeked = (pos # 0),
                        !.b.cPos = pos,
                        !.fresh = FALSE,
                        !.out = <<>>]
    IN  IF s1.b.body.nil THEN s1 ELSE Drop(CloseActive(s1))

\* Seek moves the stream to pos: the body is closed and dropped, and the
\* digest starts again at position 0
SeekMove(s, pos) ==
    LET s1 == [s EXCEPT !.b.seeked = (pos # 0),
                        !.b.md5 = IF pos = 0 THEN HashInit ELSE s.b.md5,
                        !.b.cPos = pos,
                        !.fresh = FALSE,
                        !.out = <<>>]
    IN  IF s1.b.body.nil THEN s1 ELSE Drop(CloseActive(s1))

\* a slip: Seek does not test whether the position changes
BodySeekAlwaysMoves(s, offset, whence) ==
    LET pos == SeekPos(s.b.cPos, s.b.tPos, offset, whence)
        s1 == [s EXCEPT !.reqs = 0, !.fr = [Frame0 EXCEPT !.at = s.b.cPos]]
    IN  IF pos < 0 THEN SeekReturn(s1, s.b.cPos, Err("seek before beginning"))
        ELSE SeekReturn(SeekMove(s1, pos), pos, Nil)

\* a slip: a Seek before the beginning goes to the beginning
BodySeekClampsNegative(s, offset, whence) ==
    LET pos == SeekPos(s.b.cPos, s.b.tPos, offset, whence)
        s1 == [s EXCEPT !.reqs = 0, !.fr = [Frame0 EXCEPT !.at = s.b.cPos]]
    IN  IF pos < 0
        THEN SeekReturn(SeekMove(s1, 0), s.b.cPos, Err("seek before beginning"))
        ELSE IF s.b.cPos = pos THEN SeekReturn(s1, s.b.cPos, Nil)
        ELSE SeekReturn(SeekMove(s1, pos), pos, Nil)

BodySeek(s, offset, whence) ==
    LET pos == SeekPos(s.b.cPos, s.b.tPos, offset, whence)
        s1 == [s EXCEPT !.reqs = 0, !.fr = [Frame0 EXCEPT !.at = s.b.cPos]]
    IN  IF pos < 0 THEN SeekReturn(s1, s.b.cPos, Err("seek before beginning"))
        ELSE IF s.b.cPos = pos THEN SeekReturn(s1, s.b.cPos, Nil)
        ELSE SeekReturn(SeekMove(s1, pos), pos, Nil)

BodyClose(s) ==
    LET s1 == [s EXCEPT !.reqs = 0, !.fr = Frame0]
    IN  IF s.b.closed
        THEN [s1 EXCEPT !.ret = [Ret0 EXCEPT !.op = "Close", !.err = EINVAL]]
        ELSE CloseActive([s1 EXCEPT !.b.closed = TRUE,
                                    !.ret = [Ret0 EXCEPT !.op = "Close"]])

\* a variant: the digest is compared whether or not the stream was seeked
VerifyIgnoresSeeked(ETag, seeked, md5) ==
    IF ETag = <<>> THEN Nil
    ELSE IF ETag # Hex(Sum(md5)) THEN Err("ETag mismatch")
    ELSE Nil

VerifyCopiedData(ETag, seeked, md5) ==
    IF ETag = <<>> THEN Nil
    ELSE IF seeked THEN Err("cannot verify seeked")
    ELSE IF ETag # Hex(Sum(md5)) THEN Err("ETag mismatch")
    ELSE Nil

BodyVerify(s) ==
    [s EXCEPT !.reqs = 0, !.fr = Frame0,
              !.ret = [Ret0 EXCEPT !.op = "Verify",
                          !.err = VerifyCopiedData(s.b.ETag, s.b.seeked, s.b.md5)]]

----------------------------------------------------------------------------
(* The actions. *)

Idle == pc = "idle"

\* the environment has a fault left to inject
MayFail == faults.req + faults.read < MaxFaults

OpenWith == pc = "start" /\ \E n \in (0 - 1)..MaxN : Apply(OpenWithCall(State, n))

\* only OpenWith reads the Etag header of a response
Do ==
    /\ pc = "retry"
    /\ fr.ai < b.n
    /\ \E o \in ServerOutcomes :
          /\ IsReqFault(o) => MayFail
          /\ \E etag \in IF fr.ctx = "open" THEN ETagHeaders(content) ELSE {<<>>} :
                Apply(RetryAttempt(State, o, etag))

GiveUp == pc = "retry" /\ ~(fr.ai < b.n) /\ Apply(RetryExhausted(State))

Tee ==
    /\ pc = "tee"
    /\ fr.ri < b.n
    /\ \E oc \in TeeOutcomes(b.body.pos, fr.plen - fr.nw - fr.rn, Len(content)) :
          /\ IsReadFault(b.body.pos, oc[1], oc[2], Len(content)) => MayFail
          /\ Apply(TeeRead(State, oc[1], oc[2]))

TeeGiveUp == pc = "tee" /\ ~(fr.ri < b.n) /\ Apply(ReadExhausted(State))

Read == Idle /\ \E plen \in 0..MaxBuf : Apply(BodyRead(State, plen))

\* the caller seeks one byte back, nowhere or one byte on from the start, the
\* current position or the end, up to MaxPast past the end
SeekOffsets == {0 - 1, 0, 1}

Seek ==
    /\ Idle
    /\ \E offset \in SeekOffsets, whence \in {SeekStart, SeekCurrent, SeekEnd} :
          /\ SeekPos(b.cPos, b.tPos, offset, whence) \in (0 - 1)..(b.tPos + MaxPast)
          /\ Apply(BodySeek(State, offset, whence))

Close == Idle /\ Apply(BodyClose(State))

Verify == Idle /\ Apply(BodyVerify(State))

Next == OpenWith \/ Do \/ GiveUp \/ Tee \/ TeeGiveUp \/ Read \/ Seek \/ Close \/ Verify

Spec == Init /\ [][Next]_vars

----------------------------------------------------------------------------
(* A server whose every body read fails, read by a sequential copy to the   *)
(* end (io.Copy: Read with a non-empty buffer until it returns an error).   *)

TeeFail ==
    /\ pc = "tee"
    /\ fr.ri < b.n
    /\ \E oc \in TeeOutcomes(b.body.pos, fr.plen - fr.nw - fr.rn, Len(content)) :
          /\ oc[2] = Err("read")
          /\ Apply(TeeRead(State, oc[1], oc[2]))

CopyRead ==
    /\ Idle
    /\ ret.err = Nil
    /\ \E plen \in 1..MaxBuf : Apply(BodyRead(State, plen))

FailNext == OpenWith \/ Do \/ GiveUp \/ TeeFail \/ TeeGiveUp \/ CopyRead

\* the caller's loop and the calls it makes keep running
FailSpec == Init /\ [][FailNext]_vars /\ WF_vars(FailNext)

----------------------------------------------------------------------------
(* A connection that keeps ending early: a body may return io.EOF before   *)
(* the end of the resource, with or without bytes, as long as the running   *)
(* Read has sent fewer than MaxEnds requests; no read fails otherwise.  The *)
(* caller is the sequential copy.                                           *)

TeeEnd ==
    /\ pc = "tee"
    /\ fr.ri < b.n
    /\ \E oc \in TeeOutcomes(b.body.pos, fr.plen - fr.nw - fr.rn, Len(content)) :
          /\ oc[2] # Err("read")
          /\ IsReadFault(b.body.pos, oc[1], oc[2], Len(content)) => reqs < MaxEnds
          /\ Apply(TeeRead(State, oc[1], oc[2]))

EndNext == OpenWith \/ Do \/ GiveUp \/ TeeEnd \/ CopyRead

EndSpec == Init /\ [][EndNext]_vars

----------------------------------------------------------------------------
(* The claims. *)

Returned(op) == pc = "idle" /\ ret.op = op

\* the part of the resource from offset from, n bytes long
Segment(from, n) == SubSeq(content, from + 1, from + n)

\* C1: in a sequential read of a freshly opened stream, whatever fails and
\* however often the stream reconnects, the bytes that Read has returned so
\* far, in order, are a prefix of the resource.
C1_SequentialPrefix ==
    fresh => /\ Len(out) <= Len(content)
             /\ out = Segment(0, Len(out))

\* the whole of a resource of two bytes or more was delivered over a
\* connection that was reopened with a Range request after a failed read
C1_Witness ==
    /\ fresh /\ pc = "idle"
    /\ Len(content) >= 2 /\ out = content
    /\ faults.read >= 1 /\ b.range # NoRange

\* C5: in a sequential read of a freshly opened stream, Read returns io.EOF
\* only when tPos bytes have been delivered in all and cPos = tPos.
C5_EOFOnlyAtEnd ==
    (fresh /\ Returned("Read") /\ ret.err = EOF)
        => /\ Len(out) = b.tPos
           /\ b.cPos = b.tPos
           /\ out = content

\* Read returned io.EOF after a connection had ended or failed early and the
\* stream had been reopened
C5_Witness ==
    /\ fresh /\ Returned("Read") /\ ret.err = EOF
    /\ b.tPos >= 2 /\ faults.read >= 1 /\ b.range # NoRange /\ faults.req = 0

\* C2: when an underlying read fails and leaves the stream at a position c
\* with 0 <= c < tPos, and the server answers every request normally, Read
\* reopens at c and returns no error to the caller.
C2_ResumeAfterReadFailure ==
    (/\ fresh /\ Returned("Read") /\ ~b.closed
     /\ b.n >= 2 /\ faults.req = 0 /\ faults.read <= 1
     /\ 0 <= b.cPos /\ b.cPos < b.tPos)
        => ret.err = Nil

\* C3: against a server whose every body read fails, every Read of the copy
\* returns an error that is neither nil nor io.EOF, no loop of a stream with
\* budget n runs more than n times, and the copy ends.
C3_Bounded ==
    /\ Returned("Read") => ret.err \notin {Nil, EOF}
    /\ b.n >= 1 => /\ fr.ri <= b.n
                   /\ fr.ai <= b.n
                   /\ reqs <= b.n * b.n

\* C3: the copy against the always-failing server stays within these bounds
\* and ends: OpenWith fails, or a Read returns, which it does with an error.
C3_CopyFails ==
    /\ []C3_Bounded
    /\ <>(pc \in {"failed", "panic"} \/ Returned("Read"))

\* Read delivered a byte and then gave up after n failed reads
C3_Witness ==
    /\ Returned("Read") /\ ret.err = Err("unable to read")
    /\ ret.n >= 1 /\ b.n >= 2

\* C4: after a Seek to a position p with 0 <= p < tPos, the next Read reopens
\* at p and delivers the bytes of the resource from offset p on.
C4_ReadAfterSeek ==
    (/\ ~fresh /\ Returned("Read") /\ ~b.closed
     /\ faults.req = 0 /\ faults.read = 0
     /\ ret.plen >= 1 /\ 0 <= ret.at /\ ret.at < b.tPos
     /\ Len(out) = ret.n)
        => /\ ret.err \in {Nil, EOF}
           /\ ret.n >= 1
           /\ out = Segment(ret.at, ret.n)

\* C6: a Read that begins at cPos = tPos on an open stream without a sticky
\* error, with a non-empty buffer, returns (0, io.EOF) and sends no request.
C6_EOFAtEnd ==
    (/\ Returned("Read") /\ ~b.closed /\ b.err = Nil
     /\ ret.plen >= 1 /\ ret.at = b.tPos)
        => /\ ret.n = 0
           /\ ret.err = EOF
           /\ reqs = 0

\* C7: a Read that begins at cPos > tPos returns an error that is not io.EOF,
\* delivers nothing and sends no request.
C7_ReadPastEnd ==
    (Returned("Read") /\ ~b.closed /\ b.err = Nil /\ ret.at > b.tPos)
        => /\ ret.n = 0
           /\ ret.err \notin {Nil, EOF}
           /\ reqs = 0

\* C8: on a closed stream every Read, Seek and Close returns EINVAL and
\* changes nothing of the stream, and no request is sent.
C8_ClosedStep ==
    b.closed =>
        /\ b' = b
        /\ reqs' = 0
        /\ ret'.op \in {"Read", "Seek", "Close"} => ret'.err = EINVAL

\* C8: every step of a closed stream is such a step.
C8_ClosedIsTerminal == [][C8_ClosedStep]_vars

\* C9: once a sticky error is recorded it stays the same, whatever is called;
\* no call sends a request, and a Read of the open stream returns that error
\* with zero bytes.
C9_StickyStep ==
    b.err # Nil =>
        /\ b'.err = b.err
        /\ pc' = "idle"
        /\ reqs' = 0
        /\ (ret'.op = "Read" /\ ~b.closed) => (ret'.err = b.err /\ ret'.n = 0)

\* C9: every step of a stream with a sticky error is such a step.
C9_StickyError == [][C9_StickyStep]_vars

\* a Read that began past the end, where Read records no error, returned the
\* sticky error: the error was recorded before a Seek moved the stream there
C9_Witness ==
    /\ Returned("Read") /\ ~b.closed /\ b.err # Nil
    /\ ret.err = b.err /\ ret.n = 0 /\ ret.at > b.tPos

\* C10: after a Seek back to 0, a sequential read to io.EOF delivers the
\* whole resource, and VerifyCopiedData returns nil when the ETag is the
\* digest of the resource.
C10_RereadFromZero ==
    (~fresh /\ ~b.seeked /\ Returned("Read") /\ ret.err = EOF)
        => /\ out = content
           /\ (b.ETag = Hex(Sum(HashWrite(HashInit, content)))
                  => VerifyCopiedData(b.ETag, b.seeked, b.md5) = Nil)

\* C11: what VerifyCopiedData returns is fixed by the ETag, seeked and the
\* accumulator, and the call changes nothing of the stream: nil without an
\* ETag; the cannot-verify error with an ETag on a seeked stream; otherwise
\* nil exactly when the lowercase hex digest of the accumulator is the ETag,
\* and the mismatch error when it is not.
C11_VerifyStep ==
    ret'.op = "Verify" =>
        /\ b' = b
        /\ reqs' = 0
        /\ b.ETag = <<>> => ret'.err = Nil
        /\ (b.ETag # <<>> /\ b.seeked) => ret'.err = Err("cannot verify seeked")
        /\ (b.ETag # <<>> /\ ~b.seeked) =>
              ret'.err = IF Hex(Sum(b.md5)) = b.ETag THEN Nil
                         ELSE Err("ETag mismatch")

\* C11: every call of VerifyCopiedData is such a step.
C11_VerifyIsPure == [][C11_VerifyStep]_vars

\* VerifyCopiedData refused a seeked stream whose accumulator holds the digest
\* that the ETag names
C11_Witness ==
    /\ Returned("Verify") /\ ret.err = Err("cannot verify seeked")
    /\ b.seeked /\ b.ETag = Hex(Sum(b.md5))

\* the bytes Read has returned since OpenWith or the last Seek that moved the
\* stream, and the bytes the running Read holds for its caller
Fed == out \o fr.buf

\* a Seek that moved the stream; a Seek to 0 resets the accumulator
Moved == ret'.op = "Seek" /\ b'.cPos # b.cPos

\* C12: a step feeds the accumulator the bytes it adds to what Read returns,
\* in their order, and nothing else; only a Seek to 0 resets it.
C12_FedStep ==
    IF Moved
    THEN b'.md5 = IF b'.cPos = 0 THEN HashInit ELSE b.md5
    ELSE /\ Len(Fed') >= Len(Fed)
         /\ SubSeq(Fed', 1, Len(Fed)) = Fed
         /\ b'.md5 = HashWrite(b.md5, SubSeq(Fed', Len(Fed) + 1, Len(Fed')))

\* C12: in every state the accumulator holds the bytes that Read returned
\* since it was last reset (by OpenWith or a Seek to 0), in their order, with
\* the bytes returned together with an error and the bytes read after a
\* reconnect, and every step keeps it so.
C12_AccumulatorSeesReturned ==
    /\ [](~b.seeked => b.md5 = HashWrite(HashInit, Fed))
    /\ [][C12_FedStep]_vars

\* Read returned bytes together with an error after a reconnect
C12_Witness ==
    /\ Returned("Read") /\ ret.n >= 1 /\ ret.err \notin {Nil, EOF}
    /\ b.range # NoRange /\ Len(out) >= 2
    /\ b.md5 = HashWrite(HashInit, out)

Whences == {SeekStart, SeekCurrent, SeekEnd}

\* C13: a Seek whose resulting position is cPos returns (cPos, nil) and
\* changes nothing: the body stays as it is, open if it was open, cPos,
\* seeked, the accumulator and the sticky error stay, no request is sent.
C13_SamePositionStep ==
    (ret'.op = "Seek" /\ ret'.err = Nil /\ ret'.n = b.cPos)
        => (b' = b /\ reqs' = 0 /\ pc' = "idle")

\* C13: so it is for every offset and origin that give cPos, wherever the
\* stream stands.
C13_SamePosition ==
    Idle => \A offset \in SeekOffsets, whence \in Whences :
               SeekPos(b.cPos, b.tPos, offset, whence) = b.cPos
                   => LET t == BodySeek(State, offset, whence)
                      IN  /\ t.b = b /\ t.reqs = 0
                          /\ t.ret.n = b.cPos /\ t.ret.err = Nil

\* C13: every Seek to the current position is such a step.
C13_SeekSamePosition == []C13_SamePosition /\ [][C13_SamePositionStep]_vars

\* a Seek to the current position, past the first byte, left the body open
C13_Witness ==
    /\ Returned("Seek") /\ ret.err = Nil /\ ret.n = ret.at /\ b.cPos = ret.at
    /\ b.cPos >= 1 /\ b.body.open /\ ~b.closed

\* C14: a Seek whose resulting position is negative returns an error and
\* the current position, sends no request, and leaves cPos, the body, seeked
\* and the accumulator as they were.
C14_NegativeStep ==
    (ret'.op = "Seek" /\ ret'.err # Nil)
        => (b' = b /\ reqs' = 0 /\ pc' = "idle" /\ ret'.n = b.cPos)

\* C14: so it is from each of the three origins, wherever the stream stands.
C14_Negative ==
    Idle => \A offset \in SeekOffsets, whence \in Whences :
               SeekPos(b.cPos, b.tPos, offset, whence) < 0
                   => LET t == BodySeek(State, offset, whence)
                      IN  /\ t.b = b /\ t.reqs = 0 /\ t.pc = "idle"
                          /\ t.ret.n = b.cPos /\ t.ret.err \notin {Nil, EOF}

\* C14: every Seek before the beginning is such a step.
C14_SeekNegative == []C14_Negative /\ [][C14_NegativeStep]_vars

\* a Seek before the beginning failed on a stream that stands past the first
\* byte with its body open
C14_Witness ==
    /\ Returned("Seek") /\ ret.err = Err("seek before beginning")
    /\ ret.n = b.cPos /\ b.cPos >= 1 /\ b.body.open /\ b.md5 # HashInit

\* C15: whenever Read returns the error of an exhausted attempt budget, from
\* the reopen at its start, from the reopen after an early end of the body or
\* from the loop of b.read, that error is the sticky error of the stream.
C15_ExhaustionIsSticky ==
    (Returned("Read") /\ ~b.closed /\ ret.err.kind = "request failed")
        => b.err = ret.err

\* C16: Read returns an error other than io.EOF only when the attempt budget
\* is exhausted or on a hard error of the protocol or of an invariant, never
\* the failure of one underlying read, wherever the stream stands.
C16_ReadFailureContained ==
    (Returned("Read") /\ ret.err \notin {Nil, EOF})
        => ret.err.kind \in {"request failed", "unable to read",
                             "missing Content-Range", "past boundary", "EINVAL"}

\* C17: an early end of the body consumes an attempt like a failed read, so
\* a Read whose requests all succeed and that has delivered no byte yet has
\* reopened at most n times: after n bodies in a row that end without a byte
\* it returns a fatal error.
C17_EarlyEndConsumesAttempt ==
    (/\ pc \in {"retry", "tee"} /\ fr.ctx \in {"eof", "read"}
     /\ b.n >= 1 /\ faults.req = 0 /\ fr.buf = <<>>)
        => reqs <= b.n

\* C18: the stream closes every body before it lets go of it: no call drops
\* or replaces a body that is still open.
C18_ClosedBeforeDropped == ~fr.leaked /\ ~ret.leaked

\* C19: a stream with a sticky error holds no open body.
C19_ErroredHoldsNoBody == b.err # Nil => ~b.body.open

\* the errors for which retry tries again: c.Do failed, or checkResponse
\* refused the status or the undeclared length
Retryable == {Err("transport"), Err("status"), Err("no content-length")}

\* C20: one step of retry with a budget n >= 1.  A request is sent only
\* while fewer than n attempts have failed; a transport failure and a refused
\* response each count one failed attempt and are tried again; the first
\* response that passes ends the call without the wrapped error; and the
\* call ends with 'request failed after n attempts', carrying the last
\* cause, exactly when n attempts have failed.
C20_RetryStep ==
    (pc = "retry" /\ b.n >= 1) =>
        /\ fr.ai <= b.n
        /\ reqs' \in {reqs, reqs + 1}
        /\ reqs' = reqs + 1 <=> fr.ai < b.n
        /\ pc' = "retry" =>
              /\ fr'.ai = fr.ai + 1
              /\ fr'.lastErr \in Retryable
        /\ (pc' # "retry" /\ fr.ai < b.n) =>
              (pc' \in {"idle", "failed"} => ret'.err.kind # "request failed")
        /\ (pc' # "retry" /\ fr.ai = b.n) =>
              /\ pc' \in {"idle", "failed"}
              /\ fr.lastErr \in Retryable
              /\ ret'.err = [kind |-> "request failed", cause |-> fr.lastErr.kind]

\* C20: every step of retry is such a step, and a call of OpenWith, which is
\* one call of retry, fails exactly after n requests.
C20_RetryBudget ==
    /\ [][C20_RetryStep]_vars
    /\ []((pc = "failed" /\ b.n >= 1) => reqs = b.n)
    /\ []((Returned("OpenWith") /\ b.n >= 1) => (reqs >= 1 /\ reqs <= b.n))

\* OpenWith with n = 2 failed after a transport failure and a refused status
C20_Witness ==
    /\ pc = "failed" /\ b.n = 2 /\ reqs = 2
    /\ ret.err = [kind |-> "request failed", cause |-> "status"]
    /\ faults.req = 2

\* a reopen for an offset that is not 0 is waiting for its response
ReopenPending == pc = "retry" /\ fr.ctx # "open" /\ b.cPos > 0 /\ fr.ai < b.n

\* C21: whenever such a reopen gets a response that passes checkResponse but
\* has no Content-Range, Read returns the missing-Content-Range error after
\* that one request, with the bytes it had read before and none of the
\* response, the response is closed, and the stream has no body.
C21_Refused ==
    ReopenPending =>
        LET t == RetryAttempt(State, "ignore", <<>>)
        IN  /\ t.pc = "idle"
            /\ t.ret.err = Err("missing Content-Range")
            /\ t.reqs = reqs + 1
            /\ t.ret.n = Len(fr.buf) /\ t.out = out \o fr.buf
            /\ t.b.cPos = b.cPos
            /\ t.b.body.nil
            /\ t.ret.leaked = fr.leaked

\* C21: every step in which Read returns the missing-Content-Range error out
\* of a reopen is the step of one request, and leaves no body.
C21_RefusedStep ==
    (pc = "retry" /\ ret'.op = "Read" /\ ret'.err = Err("missing Content-Range"))
        => /\ reqs' = reqs + 1
           /\ pc' = "idle"
           /\ b'.body.nil /\ b'.cPos = b.cPos
           /\ ret'.leaked = fr.leaked

C21_MissingContentRange == []C21_Refused /\ [][C21_RefusedStep]_vars

\* a Read delivered a byte, reopened past offset 0 after a failed read, and
\* returned the missing-Content-Range error after one request of a budget of
\* two or more
C21_Witness ==
    /\ Returned("Read") /\ ret.err = Err("missing Content-Range")
    /\ ret.n >= 1 /\ b.cPos >= 1 /\ reqs = 1 /\ b.n >= 2
    /\ b.body.nil /\ b.range = b.cPos

\* OpenWith has returned a stream
Opened == pc \in {"idle", "tee"} \/ (pc = "retry" /\ fr.ctx # "open")

\* a step in which a call returns
Returns(op) == pc' = "idle" /\ ret'.op = op

\* C22: a Seek that moves the stream to 0 empties the accumulator and clears
\* seeked; a Seek that moves it elsewhere sets seeked and keeps the
\* accumulator; a Seek that does not move, Close and VerifyCopiedData change
\* neither; a step of Read keeps seeked and only adds to the accumulator the
\* bytes it read.
C22_ResetStep ==
    IF Returns("Seek")
    THEN IF b'.cPos = b.cPos THEN b'.md5 = b.md5 /\ b'.seeked = b.seeked
         ELSE IF b'.cPos = 0 THEN b'.md5 = HashInit /\ ~b'.seeked
         ELSE b'.md5 = b.md5 /\ b'.seeked
    ELSE IF Returns("Close") \/ Returns("Verify")
    THEN b'.md5 = b.md5 /\ b'.seeked = b.seeked
    ELSE Opened =>
            /\ b'.seeked = b.seeked
            /\ b'.md5 = HashWrite(b.md5, SubSeq(Fed', Len(Fed) + 1, Len(Fed')))

\* C22: every step of an opened stream is such a step.
C22_ResetOnlyBySeekToZero == [][C22_ResetStep]_vars

\* a Seek moved a seeked stream whose accumulator was not empty back to 0
C22_Witness ==
    /\ Returned("Seek") /\ ret.err = Nil /\ ret.n = 0 /\ ret.at >= 1
    /\ b.cPos = 0 /\ ~b.seeked /\ b.md5 = HashInit /\ ~fresh
    /\ b.range # NoRange

\* C23: the count a Read returns, with nil, io.EOF or an error, is what cPos
\* has grown by since the call began, and is at most len(p); so it is while
\* the call runs, for the bytes read so far.
C23_CountIsAdvance ==
    /\ Returned("Read") =>
          /\ ret.n = b.cPos - ret.at
          /\ ret.n >= 0 /\ ret.n <= ret.plen
    /\ (pc \in {"retry", "tee"} /\ fr.ctx # "open") =>
          /\ Len(fr.buf) = b.cPos - fr.at
          /\ Len(fr.buf) <= fr.plen

\* C23: Close and VerifyCopiedData leave cPos as it is.
C23_CloseVerifyStep ==
    (Returns("Close") \/ Returns("Verify")) => b'.cPos = b.cPos

C23_ReadCountMatchesPosition == []C23_CountIsAdvance /\ [][C23_CloseVerifyStep]_vars

\* a Read that began past offset 0 returned a byte together with an error
C23_Witness ==
    /\ Returned("Read") /\ ret.err \notin {Nil, EOF}
    /\ ret.at >= 1 /\ ret.n >= 1 /\ b.cPos = ret.at + ret.n

\* C24: for every attempt budget, OpenWith ends by returning a stream with a
\* live body or an error that is not nil; retry never hands back no response
\* with no error.
C24_OpenWithReturns ==
    /\ pc # "panic"
    /\ pc = "failed" => ret.err # Nil
    /\ Returned("OpenWith") => (ret.err = Nil /\ b.body.open)

====
